---- MODULE Spec2Model ----
(***************************************************************************)
(* Model of the catalogue export engine of the HEM product catalogue:     *)
(* src/pdf_generator.py (generate_pdf_html, generate_excel_file,           *)
(* get_val_fuzzy, render_pdf) and its caller src/ui/tab_export.py.         *)
(*                                                                         *)
(* Python values are records with a type tag t: a str carries its          *)
(* characters as a tuple of one-character strings, so that strip(),        *)
(* lower(), upper() and the substring test are computed, not assumed.      *)
(***************************************************************************)
EXTENDS Integers, Sequences, FiniteSets, TLC

VARIABLES
    pc,                   \* position of the running operation
    cart,                 \* st.session_state.cart: the selected products, in cart order
    df,                   \* the frame handed to the engine: rows in frame order
    case_selection_map,   \* dict category -> case-size dict (a function on its keys)
    excel_rows,           \* generate_excel_file: the rows built so far
    worksheet,            \* generate_excel_file: the cells written to the sheet
    row_i,                \* generate_pdf_html: number of rows the loop has consumed
    html_parts,           \* generate_pdf_html: the fragments appended so far
    current_catalogue,
    current_category,
    current_subcategory,
    is_first_item,
    category_open,
    CONFIG,               \* pdfkit configuration found at import, or None (FALSE)
    HAS_WEASYPRINT,       \* whether weasyprint could be imported
    render_result,        \* what render_pdf returned
    gen_pdf_bytes,        \* st.session_state.gen_pdf_bytes
    gen_excel_bytes,      \* st.session_state.gen_excel_bytes
    fz_row_data,          \* get_val_fuzzy: the mapping
    fz_keys_list,         \* get_val_fuzzy: the fragments, in priority order
    fz_result,            \* get_val_fuzzy: the value returned
    backends_used,        \* the backend each call of render_pdf went to, in call order
    presses,              \* how often the Generate button was pressed in this session
    image_resolver,       \* get_image_as_base64_str: the network, or a deterministic stub
    call_no,              \* which call of the engine on the same arguments is running
    first_result,         \* what the first of these calls returned
    confirm_flags,        \* st.session_state["_confirm_" + key] of confirm_action
    confirm_returned,     \* what confirm_action returned in the latest script run
    action_clicks,        \* per key, how often the action button was clicked
    executions            \* per key, how often the destructive action was executed

inputVars == <<cart, df, case_selection_map>>
excelVars == <<excel_rows, worksheet>>
gridVars == <<row_i, html_parts, current_catalogue, current_category,
              current_subcategory, is_first_item, category_open>>
engineVars == <<CONFIG, HAS_WEASYPRINT>>
sessionVars == <<render_result, gen_pdf_bytes, gen_excel_bytes>>
fuzzyVars == <<fz_row_data, fz_keys_list, fz_result>>
traceVars == <<backends_used, presses, image_resolver, call_no, first_result>>

confirmVars == <<confirm_flags, confirm_returned, action_clicks, executions>>

vars == <<pc, inputVars, excelVars, gridVars, engineVars, sessionVars, fuzzyVars,
          traceVars, confirmVars>>

(***************************************************************************)
(* Bounds of the model.                                                    *)
(***************************************************************************)
MaxRecs == 3

(***************************************************************************)
(* Python values.                                                          *)
(***************************************************************************)
None == [t |-> "none", v |-> <<>>]
NaN == [t |-> "nan", v |-> <<>>]
S(chars) == [t |-> "str", v |-> chars]

\* a != b of Python: a float NaN differs from everything, itself included.
PyNe(a, b) == a.t = "nan" \/ b.t = "nan" \/ a # b

\* str(x)
PyStr(x) ==
    CASE x.t = "str" -> x.v
      [] x.t = "none" -> <<"N", "o", "n", "e">>
      [] x.t = "nan" -> <<"n", "a", "n">>

UpperAlpha == <<"A","B","C","D","E","F","G","H","I","J","K","L","M",
                "N","O","P","Q","R","S","T","U","V","W","X","Y","Z">>
LowerAlpha == <<"a","b","c","d","e","f","g","h","i","j","k","l","m",
                "n","o","p","q","r","s","t","u","v","w","x","y","z">>

LowerChar(c) ==
    IF \E k \in DOMAIN UpperAlpha : UpperAlpha[k] = c
    THEN LowerAlpha[CHOOSE k \in DOMAIN UpperAlpha : UpperAlpha[k] = c]
    ELSE c

UpperChar(c) ==
    IF \E k \in DOMAIN LowerAlpha : LowerAlpha[k] = c
    THEN UpperAlpha[CHOOSE k \in DOMAIN LowerAlpha : LowerAlpha[k] = c]
    ELSE c

\* s.lower(), s.upper()
Lower(s) == [k \in DOMAIN s |-> LowerChar(s[k])]
Upper(s) == [k \in DOMAIN s |-> UpperChar(s[k])]

IsSpace(c) == c \in {" ", "\t", "\n"}

RECURSIVE LStrip(_)
LStrip(s) == IF s # <<>> /\ IsSpace(Head(s)) THEN LStrip(Tail(s)) ELSE s

RECURSIVE RStrip(_)
RStrip(s) ==
    IF s # <<>> /\ IsSpace(s[Len(s)]) THEN RStrip(SubSeq(s, 1, Len(s) - 1)) ELSE s

\* s.strip()
Strip(s) == RStrip(LStrip(s))

(***************************************************************************)
(* String literals of the source and of the inputs.                        *)
(***************************************************************************)
sEmpty == <<>>
sNA == <<"N", "/", "A">>
sNan == <<"n", "a", "n">>
sBlank == <<" ", " ">>
sNaLower == <<"n", "/", "a">>
sNaMixed == <<"N", "/", "a">>
sPremium == <<"P", "r", "e", "m", "i", "u", "m">>
sBasic == <<"B", "a", "s", "i", "c">>
sA == <<"A">>
sB == <<"B">>
sX == <<"X">>
sY == <<"Y">>
sRose == <<"R", "o", "s", "e", " ", "S", "t", "i", "c", "k">>
sJasmine == <<"J", "a", "s", "m", "i", "n", "e", " ", "S", "t", "i", "c", "k">>
sSandal == <<"S", "a", "n", "d", "a", "l", " ", "C", "o", "n", "e">>
sAmber == <<"A", "m", "b", "e", "r", " ", "D", "h", "o", "o", "p">>

(***************************************************************************)
(* Image strings.  Only four things are ever asked of an image string:     *)
(* whether it is empty, whether it starts with "http", its length, and     *)
(* whether an "i" occurs in its first 20 characters (lower-cased).         *)
(***************************************************************************)
Img(http, len, i20) == [t |-> "str", http |-> http, len |-> len, i20 |-> i20]
EmptyImg == Img(FALSE, 0, FALSE)
PngPayload == Img(FALSE, 200, TRUE)
JpegPayload == Img(FALSE, 200, FALSE)
UrlImg == Img(TRUE, 60, TRUE)

\* get_image_as_base64_str(reference): an embeddable payload, or empty.
ResolveOutcomes == {PngPayload, JpegPayload, EmptyImg}

\* what a call of the resolver may return: anything over the network, the
\* stub's one answer when a deterministic stub is injected
Resolved(reference) ==
    IF image_resolver.t = "network" THEN ResolveOutcomes ELSE {image_resolver}

(***************************************************************************)
(* Dicts: a dict is the sequence of its items in iteration order.          *)
(***************************************************************************)
Item(k, v) == [k |-> k, v |-> v]
EmptyDict == <<>>

HasKey(d, key) == \E n \in DOMAIN d : d[n].k = key

\* d.get(key, default)
DictGet(d, key, default) ==
    IF HasKey(d, key) THEN d[CHOOSE n \in DOMAIN d : d[n].k = key].v ELSE default

\* bool(x) for the values a case-size dict holds
Truthy(x) ==
    CASE x.t = "str" -> x.v # <<>>
      [] x.t = "none" -> FALSE
      [] x.t = "nan" -> TRUE

\* a in b for two strings
Contains(needle, hay) ==
    \E n \in 0..(Len(hay) - Len(needle)) :
        SubSeq(hay, n + 1, n + Len(needle)) = needle

(***************************************************************************)
(* get_val_fuzzy: the value of the first key that contains a fragment,     *)
(* fragments in the outer loop, keys in the inner loop.                    *)
(***************************************************************************)
RECURSIVE ScanKeys(_, _, _)
ScanKeys(row_data, k, n) ==
    IF n > Len(row_data) THEN <<>>
    ELSE IF Contains(Lower(k), Lower(row_data[n].k))
         THEN <<PyStr(row_data[n].v)>>
         ELSE ScanKeys(row_data, k, n + 1)

RECURSIVE ScanFragments(_, _, _)
ScanFragments(row_data, keys_list, f) ==
    IF f > Len(keys_list) THEN <<"-">>
    ELSE LET hit == ScanKeys(row_data, keys_list[f], 1)
         IN IF hit # <<>> THEN hit[1] ELSE ScanFragments(row_data, keys_list, f + 1)

\* mutant: the loops swapped, keys outside and fragments inside
RECURSIVE ScanKeysFirst(_, _, _)
ScanKeysFirst(row_data, keys_list, n) ==
    IF n > Len(row_data) THEN <<"-">>
    ELSE IF \E f \in DOMAIN keys_list :
              Contains(Lower(keys_list[f]), Lower(row_data[n].k))
         THEN PyStr(row_data[n].v)
         ELSE ScanKeysFirst(row_data, keys_list, n + 1)

get_val_fuzzy_keys_first(row_data, keys_list) == ScanKeysFirst(row_data, keys_list, 1)

get_val_fuzzy(row_data, keys_list) == ScanFragments(row_data, keys_list, 1)

(***************************************************************************)
(* create_safe_id (data_loader): lower-cased, every run of                 *)
(* non-alphanumeric characters collapsed to one separator.                 *)
(***************************************************************************)
Digits == {"0", "1", "2", "3", "4", "5", "6", "7", "8", "9"}
IsAlnum(c) == c \in Digits \/ (\E k \in DOMAIN LowerAlpha : LowerAlpha[k] = c)

RECURSIVE CollapseRuns(_, _)
CollapseRuns(s, inRun) ==
    IF s = <<>> THEN <<>>
    ELSE IF IsAlnum(Head(s)) THEN <<Head(s)>> \o CollapseRuns(Tail(s), FALSE)
    ELSE IF inRun THEN CollapseRuns(Tail(s), TRUE)
    ELSE <<"_">> \o CollapseRuns(Tail(s), TRUE)

create_safe_id(name) == CollapseRuns(Lower(PyStr(name)), FALSE)

(***************************************************************************)
(* The fragments generate_pdf_html appends to html_parts.                  *)
(***************************************************************************)
\* Series.unique(): the values in order of first appearance
RECURSIVE Unique(_)
Unique(values) ==
    IF values = <<>> THEN <<>>
    ELSE LET init == Unique(SubSeq(values, 1, Len(values) - 1))
             last == values[Len(values)]
         IN IF \E n \in DOMAIN init : init[n] = last THEN init ELSE Append(init, last)

\* the mask column == value: a null on either side compares False
PdEq(cell, value) == cell.t = "str" /\ value.t = "str" /\ cell = value

\* img_str and len(str(img_str)) > 100
Usable(img_str) ==
    CASE img_str.t = "str" -> img_str.len > 0 /\ img_str.len > 100
      [] img_str.t = "none" -> FALSE
      [] img_str.t = "nan" -> FALSE

\* the first usable image of a group of rows, or ""
RepImage(group) ==
    IF \E n \in DOMAIN group : Usable(group[n].ImageB64)
    THEN group[CHOOSE n \in DOMAIN group :
                 /\ Usable(group[n].ImageB64)
                 /\ \A m \in 1..(n - 1) : ~Usable(group[m].ImageB64)].ImageB64
    ELSE EmptyImg

\* mutant: sections and cards follow the runs of equal neighbours, as the grid does
RECURSIVE Runs(_)
Runs(values) ==
    IF values = <<>> THEN <<>>
    ELSE LET init == Runs(SubSeq(values, 1, Len(values) - 1))
             last == values[Len(values)]
         IN IF init # <<>> /\ init[Len(init)] = last THEN init ELSE Append(init, last)

TocOfRuns(df_sorted) ==
    LET catalogues == Runs([k \in DOMAIN df_sorted |-> df_sorted[k].Catalogue])
    IN [c \in DOMAIN catalogues |->
          LET catalogue_name == catalogues[c]
              cat_df == SelectSeq(df_sorted, LAMBDA r : PdEq(r.Catalogue, catalogue_name))
              unique_categories == Runs([k \in DOMAIN cat_df |-> cat_df[k].Category])
          IN [name |-> catalogue_name,
              pb |-> c # 1,
              cards |-> [j \in DOMAIN unique_categories |->
                           LET category == unique_categories[j]
                               group == SelectSeq(cat_df,
                                                  LAMBDA r : PdEq(r.Category, category))
                           IN [href |-> create_safe_id(category),
                               label |-> category,
                               image |-> RepImage(group)]]]]

\* generate_table_of_contents_html: the sections of the table of contents,
\* one per unique catalogue, each with one link-card per unique category
generate_table_of_contents_html(df_sorted) ==
    LET catalogues == Unique([k \in DOMAIN df_sorted |-> df_sorted[k].Catalogue])
    IN [c \in DOMAIN catalogues |->
          LET catalogue_name == catalogues[c]
              is_first_catalogue == c = 1
              cat_df == SelectSeq(df_sorted, LAMBDA r : PdEq(r.Catalogue, catalogue_name))
              unique_categories == Unique([k \in DOMAIN cat_df |-> cat_df[k].Category])
          IN [name |-> catalogue_name,
              pb |-> ~is_first_catalogue,
              cards |-> [j \in DOMAIN unique_categories |->
                           LET category == unique_categories[j]
                               group == SelectSeq(cat_df,
                                                  LAMBDA r : PdEq(r.Category, category))
                           IN [href |-> create_safe_id(category),
                               label |-> category,
                               image |-> RepImage(group)]]]]

FrontMatter ==
    << [kind |-> "css"], [kind |-> "cover"], [kind |-> "story"],
       [kind |-> "toc", sections |-> generate_table_of_contents_html(df)],
       [kind |-> "wrapper"] >>

CloseBlock == [kind |-> "close"]
OpenBlock == [kind |-> "open"]
CatalogueHeading(name, pageBreak) ==
    [kind |-> "catalogue", name |-> name, pb |-> pageBreak]
CategoryHeading(name) ==
    [kind |-> "category", name |-> name, id |-> create_safe_id(name)]
CaseSizeInfo(desc) == [kind |-> "caseinfo", desc |-> desc]
CaseSizeTable(row_data) ==
    [kind |-> "table",
     packing |-> get_val_fuzzy(row_data, << <<"P","a","c","k","i","n","g">>,
                                            <<"M","a","s","t","e","r"," ","C","t","n">> >>),
     gross |-> get_val_fuzzy(row_data, << <<"G","r","o","s","s"," ","W","t">>,
                                          <<"G","r","o","s","s"," ","W","e","i","g","h","t">> >>),
     net |-> get_val_fuzzy(row_data, << <<"N","e","t"," ","W","t">>,
                                        <<"N","e","t"," ","W","e","i","g","h","t">> >>),
     length |-> get_val_fuzzy(row_data, << <<"L","e","n","g","t","h">> >>),
     breadth |-> get_val_fuzzy(row_data, << <<"B","r","e","a","d","t","h">>,
                                            <<"W","i","d","t","h">> >>),
     height |-> get_val_fuzzy(row_data, << <<"H","e","i","g","h","t">> >>),
     cbm |-> get_val_fuzzy(row_data, << <<"C","B","M">> >>)]
SubcatHeader(label) == [kind |-> "subcat", label |-> label]
Closing == [kind |-> "end"]

\* the tiered font size of a card name
FontSize(item_name_text) ==
    LET name_len == Len(PyStr(item_name_text))
    IN IF name_len < 30 THEN "9pt" ELSE IF name_len < 50 THEN "8pt" ELSE "7pt"

\* the image of a card: the <img> with its mime type, or the placeholder
ImageHtml(img_b64) ==
    IF img_b64.len > 0
    THEN [mime |-> IF img_b64.len > 20 /\ img_b64.i20 THEN "image/png" ELSE "image/jpeg",
          data |-> img_b64]
    ELSE [mime |-> "none", data |-> "IMAGE NOT FOUND"]

\* mutant: the card shows the SerialNo column
ProductCardSerial(index, row, img_b64) ==
    [kind |-> "card", no |-> row.SerialNo, name |-> row.ItemName,
     image |-> ImageHtml(img_b64), new |-> (row.IsNew = 1),
     font |-> FontSize(row.ItemName)]

ProductCard(index, row, img_b64) ==
    [kind |-> "card", no |-> index + 1, name |-> row.ItemName,
     image |-> ImageHtml(img_b64), new |-> (row.IsNew = 1),
     font |-> FontSize(row.ItemName)]

\* mutant: the table is rendered without looking whether there is data
CaseFragmentsAlways(row_data) == <<CaseSizeTable(row_data)>>

\* the packing fragments of a category block: nothing for a missing or empty dict
CaseFragments(row_data) ==
    IF row_data # EmptyDict
    THEN (LET desc == DictGet(row_data, <<"D","e","s","c","r","i","p","t","i","o","n">>,
                              S(sEmpty))
          IN IF Truthy(desc) THEN <<CaseSizeInfo(PyStr(desc))>> ELSE <<>>)
         \o <<CaseSizeTable(row_data)>>
    ELSE <<>>

\* case_selection_map.get(category, {})
CaseDataOf(category) ==
    IF category \in DOMAIN case_selection_map
    THEN case_selection_map[category] ELSE EmptyDict

\* sub_val and whether the code takes it for a subcategory label
SubVal(row) == Strip(PyStr(row.Subcategory))
IsLabel(sub_val) == Upper(sub_val) # sNA /\ Lower(sub_val) # sNan /\ sub_val # sEmpty

\* mutant: the adjacency check dropped, every label is headed
NewSubcategoryNoDedup(sub_val, tracker) == IsLabel(sub_val)

\* whether a subcategory header is emitted: a label that differs from the tracker
NewSubcategory(sub_val, tracker) == IsLabel(sub_val) /\ S(sub_val) # tracker

\* mutant: a boundary leaves the trackers below it as they are
KeepAt(boundary, tracker) == tracker

\* current_category = None, current_subcategory = None at a boundary
ResetAt(boundary, tracker) == IF boundary THEN None ELSE tracker

\* mutant: the first catalogue heading breaks the page too
BreakStyleAlways(first_item) == TRUE

\* break_style: a page break before every catalogue heading but the very first
BreakStyle(first_item) == ~first_item


(***************************************************************************)
(* float(x) and round(., 3).  A float is finite (in thousandths), nan or   *)
(* inf.  float() of a str strips it, takes an optional sign, then "nan",   *)
(* "inf", "infinity" in any case, or decimal digits with at most one       *)
(* point; anything else is a ValueError.  float(None) is a TypeError.      *)
(***************************************************************************)
Finite(milli) == [k |-> "fin", milli |-> milli]
FloatNaN == [k |-> "nan", milli |-> 0]
FloatInf == [k |-> "inf", milli |-> 0]
Raised == [ok |-> FALSE, val |-> Finite(0)]
Parsed(val) == [ok |-> TRUE, val |-> val]

DigitSeq == <<"0", "1", "2", "3", "4", "5", "6", "7", "8", "9">>
IsDigit(c) == \E d \in DOMAIN DigitSeq : DigitSeq[d] = c
DigitVal(c) == (CHOOSE d \in DOMAIN DigitSeq : DigitSeq[d] = c) - 1

RECURSIVE DigitsToNat(_)
DigitsToNat(s) ==
    IF s = <<>> THEN 0 ELSE DigitsToNat(SubSeq(s, 1, Len(s) - 1)) * 10 + DigitVal(s[Len(s)])

\* the digits after the point, as thousandths rounded on the fourth digit
FractionMilli(s) ==
    LET d(n) == IF n <= Len(s) THEN DigitVal(s[n]) ELSE 0
    IN d(1) * 100 + d(2) * 10 + d(3) + (IF d(4) >= 5 THEN 1 ELSE 0)

ParseDecimal(s) ==
    LET points == {n \in DOMAIN s : s[n] = "."}
        point == IF points = {} THEN Len(s) + 1 ELSE CHOOSE n \in points : TRUE
        whole == SubSeq(s, 1, point - 1)
        frac == SubSeq(s, point + 1, Len(s))
    IN IF /\ Cardinality(points) <= 1
          /\ Len(whole) + Len(frac) >= 1
          /\ \A n \in DOMAIN s : s[n] = "." \/ IsDigit(s[n])
       THEN Parsed(Finite(DigitsToNat(whole) * 1000 + FractionMilli(frac)))
       ELSE Raised

Negate(r) ==
    IF r.ok /\ r.val.k = "fin" THEN Parsed(Finite(0 - r.val.milli)) ELSE r

ParseUnsigned(s) ==
    IF Lower(s) = sNan THEN Parsed(FloatNaN)
    ELSE IF Lower(s) \in {<<"i","n","f">>, <<"i","n","f","i","n","i","t","y">>}
         THEN Parsed(FloatInf)
         ELSE ParseDecimal(s)

\* mutant: what cannot be parsed is coerced to nan instead of raising
RoundFloat3Coerce(x) ==
    CASE x.t = "none" -> Parsed(FloatNaN)
      [] x.t = "nan" -> Parsed(FloatNaN)
      [] x.t = "str" ->
           LET s == Strip(x.v)
               r == IF s # <<>> /\ Head(s) = "-" THEN Negate(ParseUnsigned(Tail(s)))
                    ELSE IF s # <<>> /\ Head(s) = "+" THEN ParseUnsigned(Tail(s))
                    ELSE ParseUnsigned(s)
           IN IF r.ok THEN r ELSE Parsed(FloatNaN)

\* round(float(x), 3), or the exception
RoundFloat3(x) ==
    CASE x.t = "none" -> Raised
      [] x.t = "nan" -> Parsed(FloatNaN)
      [] x.t = "str" ->
           LET s == Strip(x.v)
           IN IF s # <<>> /\ Head(s) = "-" THEN Negate(ParseUnsigned(Tail(s)))
              ELSE IF s # <<>> /\ Head(s) = "+" THEN ParseUnsigned(Tail(s))
              ELSE ParseUnsigned(s)

(***************************************************************************)
(* generate_excel_file: the scan of a category's case-size dict for the    *)
(* carton suffix and the carton volume; every matching key assigns.        *)
(***************************************************************************)
sSuffixFrag == <<"s", "u", "f", "f", "i", "x">>
sCbmFrag == <<"c", "b", "m">>

RECURSIVE ScanCase(_, _, _, _)
ScanCase(case_data, n, suffix, cbm) ==
    IF n > Len(case_data) THEN [suffix |-> suffix, cbm |-> cbm]
    ELSE LET k == case_data[n].k
             v == case_data[n].v
             suffix1 == IF Contains(sSuffixFrag, Lower(k)) THEN Strip(PyStr(v)) ELSE suffix
             cbm1 == IF Contains(sCbmFrag, Lower(k))
                     THEN (IF RoundFloat3(v).ok THEN RoundFloat3(v).val ELSE Finite(0))
                     ELSE cbm
         IN ScanCase(case_data, n + 1, suffix1, cbm1)

\* suffix and cbm of a row's category
CaseOfCategory(cat) ==
    IF cat \in DOMAIN case_selection_map
    THEN LET scan == ScanCase(case_selection_map[cat], 1, sEmpty, Finite(0))
         IN [suffix |-> IF scan.suffix = sNan THEN sEmpty ELSE scan.suffix,
             cbm |-> scan.cbm]
    ELSE [suffix |-> sEmpty, cbm |-> Finite(0)]

ExcelRowOf(idx, row) ==
    LET case == CaseOfCategory(row.Category)
        full_name == Strip(PyStr(row.ItemName))
    IN [RefNo |-> idx + 1,
        Category |-> row.Category,
        Name |-> IF case.suffix # sEmpty THEN full_name \o <<" ">> \o case.suffix
                                         ELSE full_name,
        CartonCBM |-> case.cbm,
        Qty |-> 0,
        TotalCBM |-> 0]

\* mutant: the rows are taken in the order of their index labels
ExcelRowByLabel ==
    /\ pc = "excel"
    /\ Len(excel_rows) < Len(df)
    /\ LET row == df[CHOOSE k \in DOMAIN df : df[k].idx = Len(excel_rows)]
       IN excel_rows' = Append(excel_rows, ExcelRowOf(row.idx, row))
    /\ UNCHANGED <<pc, worksheet, inputVars, gridVars, engineVars, sessionVars, fuzzyVars, traceVars, confirmVars>>

\* One iteration of the loop over df_sorted.iterrows() in generate_excel_file.
ExcelRow ==
    /\ pc = "excel"
    /\ Len(excel_rows) < Len(df)
    /\ LET row == df[Len(excel_rows) + 1]
       IN excel_rows' = Append(excel_rows, ExcelRowOf(row.idx, row))
    /\ UNCHANGED <<pc, worksheet, inputVars, gridVars, engineVars, sessionVars, fuzzyVars, traceVars, confirmVars>>

(***************************************************************************)
(* The sheet.  to_excel(startrow=7) writes the column headers on sheet row  *)
(* 8 and the literal cells of the data row with 0-based number i on sheet   *)
(* row i + 9; the total goes to C2; then, for every i in range(len), the    *)
(* quantity cell and the Total CBM formula are written on row_idx = i + 9.  *)
(* Sheet rows are 1-based throughout.  The bytes are returned to the        *)
(* caller, who keeps them.                                                  *)
(***************************************************************************)
startrow == 7

\* the sheet row to_excel gives the data row with 0-based number i
ToExcelRow(i) == startrow + 2 + i

\* mutant: the formulas start one row early, on the header row
RowIdxOnHeader(i) == i + 8

\* row_idx = i + 9
RowIdx(i) == i + 9

Literal(value) == [formula |-> "", d_row |-> 0, e_row |-> 0, value |-> value]
Product_DE(row_idx) == [formula |-> "D*E", d_row |-> row_idx, e_row |-> row_idx, value |-> 0]
\* a row to_excel wrote nothing to
BlankCells ==
    [A |-> 0, B |-> [t |-> "blank"], C |-> <<>>, D |-> [k |-> "blank", milli |-> 0],
     E |-> -1, F |-> Literal(-1)]

SheetOf(rows) ==
    LET n == Len(rows)
        written == {ToExcelRow(i) : i \in 0..(n - 1)}
        formulas == {RowIdx(i) : i \in 0..(n - 1)}
        to_excel(r) ==
            IF r \in written
            THEN LET rec == rows[CHOOSE k \in 1..n : ToExcelRow(k - 1) = r]
                 IN [A |-> rec.RefNo, B |-> rec.Category, C |-> rec.Name,
                     D |-> rec.CartonCBM, E |-> rec.Qty, F |-> Literal(rec.TotalCBM)]
            ELSE BlankCells
        cells == [r \in written \cup formulas |->
                    IF r \in formulas
                    THEN [to_excel(r) EXCEPT !.E = 0, !.F = Product_DE(r)]
                    ELSE to_excel(r)]
    IN [c2 |-> [col |-> "F", first |-> 9, last |-> n + 9],
        cells |-> cells,
        data |-> [k \in 1..n |->
                    [sheet_row |-> ToExcelRow(k - 1),
                     A |-> cells[ToExcelRow(k - 1)].A,
                     B |-> cells[ToExcelRow(k - 1)].B,
                     C |-> cells[ToExcelRow(k - 1)].C,
                     D |-> cells[ToExcelRow(k - 1)].D,
                     E |-> cells[ToExcelRow(k - 1)].E,
                     F |-> cells[ToExcelRow(k - 1)].F]]]

ExcelWrite ==
    /\ pc = "excel"
    /\ Len(excel_rows) = Len(df)
    /\ worksheet' = SheetOf(excel_rows)
    /\ gen_excel_bytes' = SheetOf(excel_rows)
    /\ pc' = "html"
    /\ UNCHANGED <<excel_rows, render_result, gen_pdf_bytes, inputVars, gridVars,
                   engineVars, fuzzyVars, traceVars, confirmVars>>

\* mutant: the trackers are module globals that a call leaves as they are
HtmlStartKeepTrackers ==
    /\ pc = "html"
    /\ pc' = "grid"
    /\ row_i' = 0
    /\ html_parts' = FrontMatter
    /\ UNCHANGED <<current_catalogue, current_category, current_subcategory,
                   is_first_item, category_open>>
    /\ UNCHANGED <<inputVars, excelVars, engineVars, sessionVars, fuzzyVars, traceVars, confirmVars>>

(***************************************************************************)
(* generate_pdf_html up to its loop: the front matter is appended and the  *)
(* trackers are set.                                                       *)
(***************************************************************************)
HtmlStart ==
    /\ pc = "html"
    /\ pc' = "grid"
    /\ row_i' = 0
    /\ html_parts' = FrontMatter
    /\ current_catalogue' = None
    /\ current_category' = None
    /\ current_subcategory' = None
    /\ is_first_item' = TRUE
    /\ category_open' = FALSE
    /\ UNCHANGED <<inputVars, excelVars, engineVars, sessionVars, fuzzyVars, traceVars, confirmVars>>

(***************************************************************************)
(* One iteration of the loop over df_sorted.iterrows() in                  *)
(* generate_pdf_html.  An image reference that is no str has no            *)
(* startswith: the loop raises AttributeError after the headers of the     *)
(* row were appended.                                                      *)
(***************************************************************************)
GridRow ==
    /\ pc = "grid"
    /\ row_i < Len(df)
    /\ LET row == df[row_i + 1]
           index == row.idx
           \* --- New Catalogue Section ---
           newCatalogue == PyNe(row.Catalogue, current_catalogue)
           parts1 == IF newCatalogue
                     THEN (IF category_open THEN <<CloseBlock>> ELSE <<>>)
                          \o <<CatalogueHeading(row.Catalogue, BreakStyle(is_first_item))>>
                     ELSE <<>>
           open1 == IF newCatalogue THEN FALSE ELSE category_open
           category1 == ResetAt(newCatalogue, current_category)
           subcat1 == ResetAt(newCatalogue, current_subcategory)
           \* --- New Category Section ---
           newCategory == PyNe(row.Category, category1)
           parts2 == IF newCategory
                     THEN (IF open1 THEN <<CloseBlock>> ELSE <<>>)
                          \o <<OpenBlock, CategoryHeading(row.Category)>>
                          \o CaseFragments(CaseDataOf(row.Category))
                     ELSE <<>>
           subcat2 == ResetAt(newCategory, subcat1)
           \* --- Subcategory Header ---
           sub_val == SubVal(row)
           newSubcat == NewSubcategory(sub_val, subcat2)
           parts3 == IF newSubcat THEN <<SubcatHeader(sub_val)>> ELSE <<>>
           headers == html_parts \o parts1 \o parts2 \o parts3
       IN /\ current_catalogue' = IF newCatalogue THEN row.Catalogue ELSE current_catalogue
          /\ is_first_item' = IF newCatalogue THEN FALSE ELSE is_first_item
          /\ current_category' = IF newCategory THEN row.Category ELSE category1
          /\ category_open' = IF newCategory THEN TRUE ELSE open1
          /\ current_subcategory' = IF newSubcat THEN S(sub_val) ELSE subcat2
          /\ IF row.ImageB64.t # "str"
             THEN /\ pc' = "raised"
                  /\ html_parts' = headers
                  /\ row_i' = row_i
             ELSE \E img_b64 \in (IF row.ImageB64.http THEN Resolved(row.ImageB64)
                                                       ELSE {row.ImageB64}) :
                  /\ pc' = "grid"
                  /\ html_parts' = headers \o <<ProductCard(index, row, img_b64)>>
                  /\ row_i' = row_i + 1
    /\ UNCHANGED <<inputVars, excelVars, engineVars, sessionVars, fuzzyVars, traceVars, confirmVars>>

\* mutant: the block still open at the end of input is left open
GridEndNoClose ==
    /\ pc = "grid"
    /\ row_i = Len(df)
    /\ html_parts' = html_parts \o <<Closing>>
    /\ pc' = "done"
    /\ UNCHANGED <<row_i, current_catalogue, current_category,
                   current_subcategory, is_first_item, category_open>>
    /\ UNCHANGED <<inputVars, excelVars, engineVars, sessionVars, fuzzyVars, traceVars, confirmVars>>

\* mutant: the closing of a block is appended whether or not one is open
GridEndAlwaysClose ==
    /\ pc = "grid"
    /\ row_i = Len(df)
    /\ html_parts' = html_parts \o <<CloseBlock, Closing>>
    /\ pc' = "done"
    /\ UNCHANGED <<row_i, current_catalogue, current_category,
                   current_subcategory, is_first_item, category_open>>
    /\ UNCHANGED <<inputVars, excelVars, engineVars, sessionVars, fuzzyVars, traceVars, confirmVars>>

\* End of the loop: close the last open category block and the wrapper.
GridEnd ==
    /\ pc = "grid"
    /\ row_i = Len(df)
    /\ html_parts' = html_parts
                     \o (IF category_open THEN <<CloseBlock>> ELSE <<>>)
                     \o <<Closing>>
    /\ pc' = "done"
    /\ UNCHANGED <<row_i, current_catalogue, current_category,
                   current_subcategory, is_first_item, category_open>>
    /\ UNCHANGED <<inputVars, excelVars, engineVars, sessionVars, fuzzyVars, traceVars, confirmVars>>

(***************************************************************************)
(* generate_pdf_html on any frame: collections, categories (a null         *)
(* category included) and the subcategory vary, the index is the default   *)
(* RangeIndex.                                                             *)
(***************************************************************************)
ItemNames == <<S(sRose), S(sJasmine), S(sSandal), S(sAmber)>>

Row(idx, pid, catalogue, category, subcategory, name, image, isNew, serial) ==
    [idx |-> idx, ProductID |-> pid, Catalogue |-> catalogue, Category |-> category,
     Subcategory |-> subcategory, ItemName |-> name, ImageB64 |-> image,
     IsNew |-> isNew, SerialNo |-> serial]

\* the frames of n rows whose grouping fields are drawn from the given sets
Frames(n, catalogues, categories, subcategories) ==
    { [k \in 1..n |-> Row(k - 1, k, f[k][1], f[k][2], f[k][3],
                          ItemNames[((k - 1) % Len(ItemNames)) + 1], EmptyImg, 0, k)] :
      f \in [1..n -> catalogues \X categories \X subcategories] }

\* what the variables of an operation hold while it is not running
NoBytes == [t |-> "none"]
ExcelIdle == excel_rows = <<>> /\ worksheet = NoBytes
GridIdle ==
    /\ row_i = 0
    /\ html_parts = <<>>
    /\ current_catalogue = None
    /\ current_category = None
    /\ current_subcategory = None
    /\ is_first_item = TRUE
    /\ category_open = FALSE
EngineIdle == CONFIG = FALSE /\ HAS_WEASYPRINT = FALSE
SessionIdle ==
    /\ render_result = NoBytes
    /\ gen_pdf_bytes = NoBytes
    /\ gen_excel_bytes = NoBytes
FuzzyIdle == fz_row_data = <<>> /\ fz_keys_list = <<>> /\ fz_result = <<>>
Network == [t |-> "network"]
ConfirmKeys == {"clear_cart", "del_custom_4"}
ConfirmIdle ==
    /\ confirm_flags = [key \in ConfirmKeys |-> "unset"]
    /\ confirm_returned = FALSE
    /\ action_clicks = [key \in ConfirmKeys |-> 0]
    /\ executions = [key \in ConfirmKeys |-> 0]
TraceIdle ==
    /\ backends_used = <<>>
    /\ presses = 0
    /\ image_resolver = Network
    /\ call_no = 1
    /\ first_result = NoBytes
    /\ ConfirmIdle

InitGrid ==
    /\ \E n \in 0..MaxRecs :
         df \in Frames(n, {S(sA), S(sB)}, {S(sX), S(sY), None},
                       {S(sEmpty), S(sPremium)})
    /\ cart = <<>>
    /\ case_selection_map = <<>>
    /\ pc = "html"
    /\ ExcelIdle /\ GridIdle /\ EngineIdle /\ SessionIdle /\ FuzzyIdle /\ TraceIdle

NextGrid == HtmlStart \/ GridRow \/ GridEnd

SpecGrid == InitGrid /\ [][NextGrid]_vars

(***************************************************************************)
(* generate_pdf_html on frames of one category block whose subcategory     *)
(* cells take every shape of an empty value next to two plain labels.      *)
(***************************************************************************)
SubcategoryCells ==
    {S(sEmpty), S(sBlank), S(sNaLower), S(sNA), S(sNaMixed), NaN, None,
     S(sPremium), S(sBasic)}

InitSub ==
    /\ \E n \in 0..MaxRecs :
         df \in Frames(n, {S(sA)}, {S(sX)}, SubcategoryCells)
    /\ cart = <<>>
    /\ case_selection_map = <<>>
    /\ pc = "html"
    /\ ExcelIdle /\ GridIdle /\ EngineIdle /\ SessionIdle /\ FuzzyIdle /\ TraceIdle

SpecSub == InitSub /\ [][NextGrid]_vars

(***************************************************************************)
(* generate_pdf_html on frames of one category block whose image cells     *)
(* take every shape: a payload, a URL still to be resolved, the empty      *)
(* string, None and a missing (NaN) cell.                                  *)
(***************************************************************************)
FramesOf(n, cells) ==
    { [k \in 1..n |-> Row(k - 1, k, f[k][1], f[k][2], f[k][3],
                          ItemNames[((k - 1) % Len(ItemNames)) + 1], f[k][4], 0, k)] :
      f \in [1..n -> cells] }

ImageCells == {PngPayload, UrlImg, EmptyImg, None, NaN}

InitImg ==
    /\ \E n \in 0..MaxRecs :
         df \in FramesOf(n, {S(sA)} \X {S(sX)} \X {S(sEmpty)} \X ImageCells)
    /\ cart = <<>>
    /\ case_selection_map = <<>>
    /\ pc = "html"
    /\ ExcelIdle /\ GridIdle /\ EngineIdle /\ SessionIdle /\ FuzzyIdle /\ TraceIdle

SpecImg == InitImg /\ [][NextGrid]_vars

(***************************************************************************)
(* render_pdf.  The conversion of the selected backend either returns the  *)
(* document bytes or raises an Exception; str(e) of an exception raised    *)
(* without arguments (a MemoryError, a failed assert) is the empty string. *)
(***************************************************************************)
BackendOutcomes ==
    { [raises |-> FALSE, bytes |-> "%PDF", msg |-> ""],
      [raises |-> TRUE, bytes |-> "", msg |-> "wkhtmltopdf reported an error"],
      [raises |-> TRUE, bytes |-> "", msg |-> ""] }

NoEngineMessage == "No PDF engine found!"

Returned(pdf_bytes, engine_or_error) ==
    [pdf_bytes |-> pdf_bytes, engine_or_error |-> engine_or_error]

\* mutant: WeasyPrint is preferred to wkhtmltopdf
BackendWeasyFirst(config, has_weasyprint) ==
    IF has_weasyprint THEN "WeasyPrint (Cloud)"
    ELSE IF config THEN "PDFKit (Local)" ELSE "none"

\* the branch of render_pdf: if CONFIG ... elif HAS_WEASYPRINT ... else
Backend(config, has_weasyprint) ==
    IF config THEN "PDFKit (Local)"
    ELSE IF has_weasyprint THEN "WeasyPrint (Cloud)" ELSE "none"

render_pdf(config, has_weasyprint, outcome) ==
    LET engine == Backend(config, has_weasyprint)
    IN IF engine = "none" THEN Returned("None", NoEngineMessage)
       ELSE IF outcome.raises THEN Returned("None", outcome.msg)
            ELSE Returned(outcome.bytes, engine)

(***************************************************************************)
(* The export tab.  The catalogue (load_data_cached) lists three products  *)
(* in workbook order; a custom product is in no workbook.  The cart holds  *)
(* products in the order they were added.                                  *)
(***************************************************************************)
MaxCart == 3

Product(pid, catalogue, category, subcategory, name, image, isNew) ==
    [ProductID |-> pid, Catalogue |-> catalogue, Category |-> category,
     Subcategory |-> subcategory, ItemName |-> name, ImageB64 |-> image,
     IsNew |-> isNew]

ProductsDb ==
    << Product(1, S(sA), S(sX), S(sEmpty), S(sRose), PngPayload, 0),
       Product(2, S(sA), S(sX), S(sEmpty), S(sJasmine), EmptyImg, 1),
       Product(3, S(sB), S(sY), S(sPremium), S(sSandal), JpegPayload, 0) >>

CustomProduct == Product(4, S(sB), S(sY), S(sBasic), S(sAmber), UrlImg, 1)

Selectable == {ProductsDb[n] : n \in DOMAIN ProductsDb} \cup {CustomProduct}

Carts ==
    UNION { {c \in [1..n -> Selectable] : \A a, b \in 1..n : a # b => c[a] # c[b]} :
            n \in 0..MaxCart }

\* the case size selected for category X; none is offered for Y
SelectedCaseSizes ==
    (S(sX) :> << Item(<<"C","a","t","e","g","o","r","y">>, S(sX)),
                 Item(<<"C","a","r","t","o","n"," ","S","u","f","f","i","x">>,
                      S(<<"H","X">>)),
                 Item(<<"C","B","M">>, S(<<"0",".","0","5">>)),
                 Item(<<"P","a","c","k","i","n","g">>, S(<<"1","2">>)) >>)

\* a product of a saved template whose image is null in the JSON file
sMusk == <<"M", "u", "s", "k", " ", "C", "o", "n", "e">>
TemplateProduct == Product(5, S(sA), S(sX), S(sEmpty), S(sMusk), None, 0)

\* load_saved_templates(): the carts saved under a name
SavedTemplates ==
    { <<ProductsDb[1]>>,
      <<ProductsDb[3], ProductsDb[1]>>,
      <<ProductsDb[1], TemplateProduct>>,
      <<CustomProduct>> }

MaxPresses == 2

\* excel_sort_order: the product's position in the catalogue, else its length
SortOrder(item) ==
    IF \E n \in DOMAIN ProductsDb : ProductsDb[n].ProductID = item.ProductID
    THEN (CHOOSE n \in DOMAIN ProductsDb : ProductsDb[n].ProductID = item.ProductID) - 1
    ELSE Len(ProductsDb)

\* df_final: pd.DataFrame(cart) labels the rows 0..n-1 in cart order;
\* sort_values reorders the rows by excel_sort_order and keeps their labels
\* (rows with equal keys in any order); SerialNo is the final position.
FinalFrames(items) ==
    { [k \in DOMAIN items |->
         Row(perm[k] - 1, items[perm[k]].ProductID, items[perm[k]].Catalogue,
             items[perm[k]].Category, items[perm[k]].Subcategory,
             items[perm[k]].ItemName, items[perm[k]].ImageB64,
             items[perm[k]].IsNew, k)] :
      perm \in { q \in [DOMAIN items -> DOMAIN items] :
                   /\ \A a, b \in DOMAIN items : a # b => q[a] # q[b]
                   /\ \A a, b \in DOMAIN items :
                        a < b => SortOrder(items[q[a]]) <= SortOrder(items[q[b]]) } }

\* The Generate button: nothing is offered for an empty cart.  It can be
\* pressed again once the previous run of the script has ended, normally or
\* with the exception generate_pdf_html raised.
Generate ==
    /\ pc \in {"idle", "shown", "raised"}
    /\ presses < MaxPresses
    /\ cart # <<>>
    /\ df' \in FinalFrames(cart)
    /\ excel_rows' = <<>>
    /\ worksheet' = NoBytes
    /\ render_result' = NoBytes
    /\ presses' = presses + 1
    /\ pc' = "excel"
    /\ UNCHANGED <<cart, case_selection_map, gridVars, engineVars, gen_pdf_bytes,
                   gen_excel_bytes, fuzzyVars, backends_used, image_resolver,
                   call_no, first_result, confirmVars>>

\* sidebar, Load Template: the cart becomes the saved template
LoadTemplate ==
    /\ pc \in {"idle", "shown", "raised"}
    /\ cart' \in SavedTemplates
    /\ UNCHANGED <<pc, df, case_selection_map, excelVars, gridVars, engineVars,
                   sessionVars, fuzzyVars, traceVars, confirmVars>>

\* pdf_bytes, engine_or_error = render_pdf(html)
RenderPdf ==
    /\ pc = "done"
    /\ \E outcome \in BackendOutcomes :
         render_result' = render_pdf(CONFIG, HAS_WEASYPRINT, outcome)
    /\ backends_used' = Append(backends_used, Backend(CONFIG, HAS_WEASYPRINT))
    /\ pc' = "rendered"
    /\ UNCHANGED <<gen_pdf_bytes, gen_excel_bytes, inputVars, excelVars, gridVars,
                   engineVars, fuzzyVars, presses, image_resolver, call_no,
                   first_result, confirmVars>>

\* the bytes are kept for the download button, or the failure is shown
StoreResult ==
    /\ pc = "rendered"
    /\ gen_pdf_bytes' = IF render_result.pdf_bytes \notin {"None", ""}
                        THEN [t |-> "bytes", v |-> render_result.pdf_bytes]
                        ELSE NoBytes
    /\ pc' = "shown"
    /\ UNCHANGED <<render_result, gen_excel_bytes, inputVars, excelVars, gridVars,
                   engineVars, fuzzyVars, traceVars, confirmVars>>

Init ==
    /\ cart \in Carts
    /\ df = <<>>
    /\ case_selection_map = SelectedCaseSizes
    /\ pc = "idle"
    /\ CONFIG \in BOOLEAN
    /\ HAS_WEASYPRINT \in BOOLEAN
    /\ ExcelIdle /\ GridIdle /\ SessionIdle /\ FuzzyIdle /\ TraceIdle

Next ==
    \/ Generate
    \/ ExcelRow
    \/ ExcelWrite
    \/ HtmlStart
    \/ GridRow
    \/ GridEnd
    \/ RenderPdf
    \/ StoreResult

Spec == Init /\ [][Next]_vars

(***************************************************************************)
(* A session: the cart is the one last saved, templates are loaded from    *)
(* the sidebar and Generate is pressed again and again.                    *)
(***************************************************************************)
InitSession ==
    /\ cart \in SavedTemplates
    /\ df = <<>>
    /\ case_selection_map = SelectedCaseSizes
    /\ pc = "idle"
    /\ CONFIG \in BOOLEAN
    /\ HAS_WEASYPRINT \in BOOLEAN
    /\ ExcelIdle /\ GridIdle /\ SessionIdle /\ FuzzyIdle /\ TraceIdle

NextSession ==
    \/ LoadTemplate
    \/ Generate
    \/ ExcelRow
    \/ ExcelWrite
    \/ HtmlStart
    \/ GridRow
    \/ GridEnd
    \/ RenderPdf
    \/ StoreResult

SpecSession == InitSession /\ [][NextSession]_vars

(***************************************************************************)
(* confirm_action, one script run per user event.  The action button of a  *)
(* key is on screen when the previous run left its flag False, the dialog  *)
(* with 'Yes, confirm' and 'Cancel' when it left the flag True.  The Clear  *)
(* Cart button belongs to the review tab, which returns early on an empty  *)
(* cart; the Delete button belongs to a custom product that exists until   *)
(* it has been deleted.                                                    *)
(***************************************************************************)
MaxClicks == 2

Rendered(key) ==
    IF key = "clear_cart" THEN cart # <<>> ELSE executions[key] = 0

\* if confirm_key not in st.session_state: st.session_state[confirm_key] = False
FlagsAtCall ==
    [key \in ConfirmKeys |->
        IF Rendered(key) /\ confirm_flags[key] = "unset" THEN "off"
        ELSE confirm_flags[key]]

\* a script run in which none of the three buttons was clicked
ScriptRun ==
    /\ pc = "idle"
    /\ FlagsAtCall # confirm_flags
    /\ confirm_flags' = FlagsAtCall
    /\ confirm_returned' = FALSE
    /\ UNCHANGED <<pc, inputVars, excelVars, gridVars, engineVars, sessionVars,
                   fuzzyVars, traceVars, action_clicks, executions>>

\* the run after a click on the action button: the flag is set, st.rerun()
ClickAction ==
    /\ pc = "idle"
    /\ \E key \in ConfirmKeys :
         /\ Rendered(key)
         /\ confirm_flags[key] = "off"
         /\ action_clicks[key] < MaxClicks
         /\ confirm_flags' = [FlagsAtCall EXCEPT ![key] = "on"]
         /\ action_clicks' = [action_clicks EXCEPT ![key] = @ + 1]
    /\ confirm_returned' = FALSE
    /\ UNCHANGED <<pc, inputVars, excelVars, gridVars, engineVars, sessionVars,
                   fuzzyVars, traceVars, executions>>

\* mutant: 'Yes, confirm' leaves the flag set
ClickYesKeepsFlag ==
    /\ pc = "idle"
    /\ \E key \in ConfirmKeys :
         /\ Rendered(key)
         /\ confirm_flags[key] = "on"
         /\ confirm_flags' = confirm_flags
         /\ executions' = [executions EXCEPT ![key] = @ + 1]
         /\ cart' = IF key = "clear_cart" THEN <<>> ELSE cart
    /\ confirm_returned' = TRUE
    /\ UNCHANGED <<pc, df, case_selection_map, excelVars, gridVars, engineVars,
                   sessionVars, fuzzyVars, traceVars, action_clicks>>

\* the run after a click on 'Yes, confirm': the flag is cleared, True is
\* returned and the caller executes the action (clear_cart empties the cart)
ClickYes ==
    /\ pc = "idle"
    /\ \E key \in ConfirmKeys :
         /\ Rendered(key)
         /\ confirm_flags[key] = "on"
         /\ confirm_flags' = [confirm_flags EXCEPT ![key] = "off"]
         /\ executions' = [executions EXCEPT ![key] = @ + 1]
         /\ cart' = IF key = "clear_cart" THEN <<>> ELSE cart
    /\ confirm_returned' = TRUE
    /\ UNCHANGED <<pc, df, case_selection_map, excelVars, gridVars, engineVars,
                   sessionVars, fuzzyVars, traceVars, action_clicks>>

\* the run after a click on 'Cancel': the flag is cleared, st.rerun()
ClickCancel ==
    /\ pc = "idle"
    /\ \E key \in ConfirmKeys :
         /\ Rendered(key)
         /\ confirm_flags[key] = "on"
         /\ confirm_flags' = [confirm_flags EXCEPT ![key] = "off"]
    /\ confirm_returned' = FALSE
    /\ UNCHANGED <<pc, inputVars, excelVars, gridVars, engineVars, sessionVars,
                   fuzzyVars, traceVars, action_clicks, executions>>

InitConfirm ==
    /\ cart \in SavedTemplates
    /\ df = <<>>
    /\ case_selection_map = SelectedCaseSizes
    /\ pc = "idle"
    /\ ExcelIdle /\ GridIdle /\ EngineIdle /\ SessionIdle /\ FuzzyIdle /\ TraceIdle

NextConfirm == ScriptRun \/ ClickAction \/ ClickYes \/ ClickCancel \/ LoadTemplate

SpecConfirm == InitConfirm /\ [][NextConfirm]_vars

(***************************************************************************)
(* The engine on frames of two categories under every kind of case-size    *)
(* lookup: no entry, an empty entry, a full entry.                         *)
(***************************************************************************)
FullEntry ==
    << Item(<<"D","e","s","c","r","i","p","t","i","o","n">>,
            S(<<"1","2"," ","d","o","z">>)),
       Item(<<"C","a","r","t","o","n"," ","S","u","f","f","i","x">>, S(<<"H","X">>)),
       Item(<<"C","B","M">>, S(<<"0",".","0","5">>)),
       Item(<<"P","a","c","k","i","n","g">>, S(<<"1","2">>)) >>

BareEntry ==
    << Item(<<"S","u","f","f","i","x">>, NaN),
       Item(<<"c","b","m">>, S(<<"1",".","2","5">>)) >>

\* entries whose carton volume is text that is no number
AbcEntry ==
    << Item(<<"C","a","r","t","o","n"," ","S","u","f","f","i","x">>, S(<<"H","X">>)),
       Item(<<"C","B","M">>, S(<<"a","b","c">>)) >>

KgEntry == << Item(<<"C","B","M">>, S(<<"1","2"," ","k","g">>)) >>

NonNumericEntries == {AbcEntry, KgEntry}

\* an entry with two keys that contain 'cbm'
TwoCbmEntry ==
    << Item(<<"C","B","M">>, S(<<"0",".","0","5">>)),
       Item(<<"T","o","t","a","l"," ","C","B","M">>, S(<<"1",".","2","5">>)) >>

\* entries whose carton volume is no usable number but passes float()
NanTextEntry == << Item(<<"C","B","M">>, S(<<"n","a","n">>)) >>
InfTextEntry == << Item(<<"C","B","M">>, S(<<"i","n","f">>)) >>
NanCellEntry == << Item(<<"C","B","M">>, NaN) >>
NoneCellEntry == << Item(<<"C","B","M">>, None) >>
OverriddenEntry ==
    << Item(<<"C","B","M">>, S(<<"0",".","0","5">>)),
       Item(<<"C","B","M"," ","n","o","t","e">>, S(<<"n","a","n">>)) >>

UnusableEntries == {NanTextEntry, InfTextEntry, NanCellEntry, NoneCellEntry, OverriddenEntry}

CaseEntries ==
    {EmptyDict, FullEntry, BareEntry, TwoCbmEntry} \cup NonNumericEntries

\* the dicts whose keys are some of the categories
CaseMaps(categories) ==
    UNION { [keys -> CaseEntries] : keys \in SUBSET categories }

InitCase ==
    /\ \E n \in 0..MaxRecs :
         df \in Frames(n, {S(sA)}, {S(sX), S(sY)}, {S(sEmpty)})
    /\ case_selection_map \in CaseMaps({S(sX), S(sY)})
    /\ cart = <<>>
    /\ pc = "excel"
    /\ ExcelIdle /\ GridIdle /\ EngineIdle /\ SessionIdle /\ FuzzyIdle /\ TraceIdle

NextCase == ExcelRow \/ ExcelWrite \/ HtmlStart \/ GridRow \/ GridEnd

SpecCase == InitCase /\ [][NextCase]_vars

(***************************************************************************)
(* The same operations on case-size entries whose carton volume is no      *)
(* usable number although float() accepts it, or raises TypeError.         *)
(***************************************************************************)
VolumeEntries == UnusableEntries \cup {FullEntry}

VolumeMaps(categories) ==
    UNION { [keys -> VolumeEntries] : keys \in SUBSET categories }

InitVolume ==
    /\ \E n \in 0..MaxRecs :
         df \in Frames(n, {S(sA)}, {S(sX), S(sY)}, {S(sEmpty)})
    /\ case_selection_map \in VolumeMaps({S(sX), S(sY)})
    /\ cart = <<>>
    /\ pc = "excel"
    /\ ExcelIdle /\ GridIdle /\ EngineIdle /\ SessionIdle /\ FuzzyIdle /\ TraceIdle

SpecVolume == InitVolume /\ [][NextCase]_vars

(***************************************************************************)
(* The engine called repeatedly on the same frame, lookup and client name, *)
(* with a stub in place of the image resolver.                             *)
(***************************************************************************)
MaxCalls == 2

EngineResult == [html |-> html_parts, excel |-> worksheet]

CallAgain ==
    /\ pc = "done"
    /\ call_no < MaxCalls
    /\ first_result' = IF call_no = 1 THEN EngineResult ELSE first_result
    /\ call_no' = call_no + 1
    /\ excel_rows' = <<>>
    /\ worksheet' = NoBytes
    /\ pc' = "excel"
    /\ UNCHANGED <<inputVars, gridVars, engineVars, sessionVars, fuzzyVars,
                   backends_used, presses, image_resolver, confirmVars>>

InitTwice ==
    /\ \E n \in 0..MaxRecs :
         df \in FramesOf(n, {S(sA)} \X {S(sX), S(sY)} \X {S(sEmpty)}
                               \X {PngPayload, UrlImg})
    /\ cart = <<>>
    /\ case_selection_map = SelectedCaseSizes
    /\ image_resolver \in ResolveOutcomes
    /\ pc = "excel"
    /\ backends_used = <<>> /\ presses = 0 /\ call_no = 1 /\ first_result = NoBytes
    /\ ConfirmIdle
    /\ ExcelIdle /\ GridIdle /\ EngineIdle /\ SessionIdle /\ FuzzyIdle

NextTwice == ExcelRow \/ ExcelWrite \/ HtmlStart \/ GridRow \/ GridEnd \/ CallAgain

SpecTwice == InitTwice /\ [][NextTwice]_vars

(***************************************************************************)
(* get_val_fuzzy on loosely keyed dicts and fragment lists.                *)
(***************************************************************************)
MaxKeys == 2

sPacking == <<"P", "a", "c", "k", "i", "n", "g">>
sMasterCtn == <<"M", "a", "s", "t", "e", "r", " ", "C", "t", "n">>
sCBM == <<"C", "B", "M">>
sGrossWt == <<"G", "r", "o", "s", "s", " ", "W", "t">>
sGrossWeight == <<"G", "r", "o", "s", "s", " ", "W", "e", "i", "g", "h", "t">>

FuzzyKeys ==
    { <<"M", "a", "s", "t", "e", "r", " ", "c", "t", "n">>,
      <<"P", "A", "C", "K", "I", "N", "G">>,
      <<"p", "a", "c", "k", "i", "n", "g", " ", "p", "e", "r", " ",
        "M", "a", "s", "t", "e", "r", " ", "C", "t", "n">>,
      <<"T", "o", "t", "a", "l", " ", "c", "b", "m">> }

FuzzyValues == {S(<<"1", "2">>), S(<<"0", ".", "0", "5">>), NaN}

FuzzyDicts ==
    UNION { {d \in [1..n -> {Item(k, v) : k \in FuzzyKeys, v \in FuzzyValues}] :
               \A a, b \in 1..n : a # b => d[a].k # d[b].k} : n \in 0..MaxKeys }

FragmentLists ==
    { <<sPacking, sMasterCtn>>, <<sMasterCtn, sPacking>>, <<sCBM>>,
      <<sGrossWt, sGrossWeight>> }

CallFuzzy ==
    /\ pc = "fuzzy"
    /\ fz_result' = get_val_fuzzy(fz_row_data, fz_keys_list)
    /\ pc' = "fuzzy_done"
    /\ UNCHANGED <<fz_row_data, fz_keys_list, inputVars, excelVars, gridVars,
                   engineVars, sessionVars, traceVars, confirmVars>>

InitFuzzy ==
    /\ fz_row_data \in FuzzyDicts
    /\ fz_keys_list \in FragmentLists
    /\ fz_result = <<>>
    /\ pc = "fuzzy"
    /\ cart = <<>> /\ df = <<>> /\ case_selection_map = <<>>
    /\ ExcelIdle /\ GridIdle /\ EngineIdle /\ SessionIdle /\ TraceIdle

NextFuzzy == CallFuzzy

SpecFuzzy == InitFuzzy /\ [][NextFuzzy]_vars

(***************************************************************************)
(* Reading html_parts back: every iteration appends exactly one product    *)
(* card, last, so the fragments of the k-th row are those after the        *)
(* (k-1)-th card up to and including the k-th card.                        *)
(***************************************************************************)
CardPositions == {p \in DOMAIN html_parts : html_parts[p].kind = "card"}
NthCard(k) == CHOOSE p \in CardPositions : Cardinality({q \in CardPositions : q <= p}) = k
SegStart(k) == IF k = 1 THEN Len(FrontMatter) ELSE NthCard(k - 1)
Seg(k) == SubSeq(html_parts, SegStart(k) + 1, NthCard(k))
SegHas(k, kind) == \E p \in DOMAIN Seg(k) : Seg(k)[p].kind = kind
Cards == [k \in 1..Cardinality(CardPositions) |-> html_parts[NthCard(k)]]

\* the fragments of the grid, front matter left out, as (kind, text) events
EventOf(h) ==
    CASE h.kind = "catalogue" -> <<"collection", h.name>>
      [] h.kind = "category" -> <<"category", h.name>>
      [] h.kind = "subcat" -> <<"subcategory", S(h.label)>>
      [] h.kind = "card" -> <<"card", h.name>>
      [] OTHER -> <<h.kind, None>>
Headings ==
    LET grid == SubSeq(html_parts, Len(FrontMatter) + 1, Len(html_parts))
    IN SelectSeq([p \in DOMAIN grid |-> EventOf(grid[p])],
                 LAMBDA e : e[1] \in {"collection", "category", "subcategory", "card"})

\* the number of category blocks open after the first p fragments
RECURSIVE Depth(_)
Depth(p) ==
    IF p = 0 THEN 0
    ELSE Depth(p - 1) + (CASE html_parts[p].kind = "open" -> 1
                           [] html_parts[p].kind = "close" -> -1
                           [] OTHER -> 0)

(***************************************************************************)
(* The three-record example of the specification.                          *)
(***************************************************************************)
ExampleFrame ==
    << Row(0, 1, S(sA), S(sX), S(sEmpty), S(sRose), EmptyImg, 0, 1),
       Row(1, 2, S(sA), S(sX), S(sEmpty), S(sJasmine), EmptyImg, 0, 2),
       Row(2, 3, S(sB), S(sY), S(sPremium), S(sSandal), EmptyImg, 0, 3) >>

ExampleEvents ==
    << <<"collection", S(sA)>>, <<"category", S(sX)>>,
       <<"card", S(sRose)>>, <<"card", S(sJasmine)>>,
       <<"collection", S(sB)>>, <<"category", S(sY)>>,
       <<"subcategory", S(sPremium)>>, <<"card", S(sSandal)>> >>

\* the boundaries of the k-th row as the rows themselves define them
CollectionBoundary(k) == k = 1 \/ df[k].Catalogue # df[k - 1].Catalogue
CategoryBoundary(k) == CollectionBoundary(k) \/ df[k].Category # df[k - 1].Category

(***************************************************************************)
(* C3: a collection header is emitted exactly at the first row and at      *)
(* every row whose collection differs from its predecessor's, a category   *)
(* header exactly at every row with a collection header or whose category  *)
(* differs from its predecessor's; the three-record example yields         *)
(* collection A, category X, card, card, collection B, category Y,         *)
(* subcategory Premium, card.                                              *)
(***************************************************************************)
C3_HeadersAtBoundaries ==
    /\ \A k \in 1..row_i :
         /\ SegHas(k, "catalogue") <=> CollectionBoundary(k)
         /\ SegHas(k, "category") <=> CategoryBoundary(k)
    /\ (df = ExampleFrame /\ pc = "done") => Headings = ExampleEvents

(***************************************************************************)
(* C6: at every point of the pass at most one category block is open,      *)
(* a boundary closes the open block before the next one is opened, and     *)
(* when generate_pdf_html returns every opened block has been closed.      *)
(***************************************************************************)
C6_BlocksBalanced ==
    /\ \A p \in 0..Len(html_parts) : Depth(p) \in {0, 1}
    /\ pc = "grid" => (category_open <=> Depth(Len(html_parts)) = 1)
    /\ pc = "done" => Depth(Len(html_parts)) = 0

C6_Witness ==
    /\ pc = "done"
    /\ Cardinality({p \in DOMAIN html_parts : html_parts[p].kind = "open"}) >= 2
    /\ html_parts[Len(html_parts) - 1].kind = "close"

IsEmptySubcategory(x) ==
    \/ x.t \in {"none", "nan"}
    \/ x.t = "str" /\ (Strip(x.v) = sEmpty \/ Lower(Strip(x.v)) = sNaLower)

(***************************************************************************)
(* C4: a record whose subcategory is empty (blank, whitespace-only,        *)
(* "n/a" in any case, None or NaN) emits no subcategory header.            *)
(***************************************************************************)
C4_EmptyNoHeader ==
    \A k \in 1..Len(Cards) :
        IsEmptySubcategory(df[k].Subcategory) => ~SegHas(k, "subcat")

(***************************************************************************)
(* C5: within one category block, a record whose label equals the label    *)
(* of the record right before it emits no subcategory header; a record     *)
(* whose label follows a different label emits its header, also when the   *)
(* label was printed earlier in the block.                                 *)
(***************************************************************************)
C5_AdjacencyDedup ==
    \A k \in 2..Len(Cards) :
        LET this == df[k].Subcategory
            prev == df[k - 1].Subcategory
        IN (/\ ~SegHas(k, "category")
            /\ ~IsEmptySubcategory(this)
            /\ ~IsEmptySubcategory(prev))
           => IF Strip(this.v) = Strip(prev.v)
              THEN ~SegHas(k, "subcat")
              ELSE \E p \in DOMAIN Seg(k) :
                     Seg(k)[p] = SubcatHeader(Strip(this.v))

C5_Witness ==
    /\ pc = "done"
    /\ Len(df) = 3
    /\ \A k \in 1..3 : df[k].Category = S(sX)
    /\ df[1].Subcategory = S(sPremium)
    /\ df[2].Subcategory = S(sBasic)
    /\ df[3].Subcategory = S(sPremium)
    /\ Cardinality({p \in DOMAIN html_parts :
                      html_parts[p] = SubcatHeader(sPremium)}) = 2

(***************************************************************************)
(* C1: generate_pdf_html emits the cards and generate_excel_file the data  *)
(* rows in exactly the input order: the k-th card and the k-th data row    *)
(* belong to the k-th record of the frame, none dropped or duplicated.     *)
(***************************************************************************)
IsPrefix(a, b) == Len(a) <= Len(b) /\ SubSeq(b, 1, Len(a)) = a

C1_OutputInInputOrder ==
    /\ \A k \in 1..Len(Cards) :
         /\ k <= Len(df)
         /\ Cards[k].name = df[k].ItemName
         /\ Cards[k].no = df[k].idx + 1
    /\ \A k \in 1..Len(excel_rows) :
         /\ k <= Len(df)
         /\ IsPrefix(Strip(PyStr(df[k].ItemName)), excel_rows[k].Name)
         /\ excel_rows[k].RefNo = df[k].idx + 1
    /\ pc \in {"html", "grid", "done"} =>
         /\ Len(gen_excel_bytes.data) = Len(df)
         /\ \A k \in 1..Len(df) : gen_excel_bytes.data[k].C = excel_rows[k].Name
    /\ pc = "done" => Len(Cards) = Len(df)

C1_Witness ==
    /\ pc = "done"
    /\ Len(df) = 3
    /\ df[1].idx = 2
    /\ Len(Cards) = 3
    /\ Len(gen_excel_bytes.data) = 3

(***************************************************************************)
(* C2: the number printed on the k-th product card is k and the Ref No of  *)
(* the k-th spreadsheet data row is k, also for the frame the export tab   *)
(* builds by sort_values.                                                  *)
(***************************************************************************)
C2_NumberIsPosition ==
    /\ \A k \in 1..Len(Cards) : Cards[k].no = k
    /\ \A k \in 1..Len(excel_rows) : excel_rows[k].RefNo = k

(***************************************************************************)
(* C8: for a category with no entry or an empty entry in the case-size     *)
(* lookup generation completes, the category's block holds its heading     *)
(* and cards but no packing table and no case-size description, and its    *)
(* spreadsheet rows get carton volume 0.0 and no name suffix.              *)
(***************************************************************************)
Uncovered(category) == CaseDataOf(category) = EmptyDict

C8_NoCaseSizeDegrades ==
    /\ pc # "raised"
    /\ \A k \in 1..Len(Cards) :
         Uncovered(df[k].Category) =>
            /\ ~SegHas(k, "table")
            /\ ~SegHas(k, "caseinfo")
            /\ CategoryBoundary(k) => SegHas(k, "category")
    /\ \A k \in 1..Len(excel_rows) :
         Uncovered(df[k].Category) =>
            /\ excel_rows[k].CartonCBM = Finite(0)
            /\ excel_rows[k].Name = Strip(PyStr(df[k].ItemName))
    /\ pc = "done" => Len(Cards) = Len(df) /\ Len(gen_excel_bytes.data) = Len(df)

C8_Witness ==
    /\ pc = "done"
    /\ Len(df) = 3
    /\ S(sX) \notin DOMAIN case_selection_map
    /\ S(sY) \in DOMAIN case_selection_map /\ case_selection_map[S(sY)] = FullEntry
    /\ df[1].Category = S(sX) /\ df[2].Category = S(sY) /\ df[3].Category = S(sX)
    /\ SegHas(2, "table") /\ ~SegHas(3, "table")
    /\ excel_rows[2].CartonCBM = Finite(50)

(***************************************************************************)
(* C9: get_val_fuzzy returns the value of the first hit, fragments tried   *)
(* in their priority order and, within a fragment, keys in the mapping's   *)
(* iteration order; an earlier fragment wins over a later one that matches *)
(* an earlier key; it returns "-" exactly when no key contains a fragment. *)
(***************************************************************************)
Hit(f, n) == Contains(Lower(fz_keys_list[f]), Lower(fz_row_data[n].k))
HitFragments == {f \in DOMAIN fz_keys_list : \E n \in DOMAIN fz_row_data : Hit(f, n)}
Least(set) == CHOOSE x \in set : \A y \in set : x <= y

C9_FirstHitWins ==
    pc = "fuzzy_done" =>
       /\ (fz_result = <<"-">>) <=> (HitFragments = {})
       /\ HitFragments # {} =>
            LET f == Least(HitFragments)
                n == Least({m \in DOMAIN fz_row_data : Hit(f, m)})
            IN fz_result = PyStr(fz_row_data[n].v)

C9_Witness ==
    /\ pc = "fuzzy_done"
    /\ fz_keys_list = <<sPacking, sMasterCtn>>
    /\ Len(fz_row_data) = 2
    /\ Hit(2, 1) /\ ~Hit(1, 1) /\ Hit(1, 2)
    /\ fz_row_data[1].v # fz_row_data[2].v
    /\ fz_result = PyStr(fz_row_data[2].v)

(***************************************************************************)
(* C10: render_pdf never raises; with no backend, or when the selected     *)
(* backend throws, it returns (None, message) with a non-empty message;    *)
(* otherwise (bytes, engine name) of the backend that produced the bytes.  *)
(***************************************************************************)
C10_ResultShape ==
    pc \in {"rendered", "shown"} =>
       \/ /\ render_result.pdf_bytes = "None"
          /\ render_result.engine_or_error # ""
          /\ render_result.engine_or_error \notin {"PDFKit (Local)", "WeasyPrint (Cloud)"}
       \/ /\ render_result.pdf_bytes \notin {"None", ""}
          /\ CONFIG \/ HAS_WEASYPRINT
          /\ render_result.engine_or_error =
                IF CONFIG THEN "PDFKit (Local)" ELSE "WeasyPrint (Cloud)"

(***************************************************************************)
(* C11: the backend render_pdf goes to is a function of CONFIG and         *)
(* HAS_WEASYPRINT alone: no step changes them, wkhtmltopdf is used         *)
(* whenever CONFIG is set, WeasyPrint exactly when CONFIG is unset and     *)
(* HAS_WEASYPRINT is true, and all calls of a process use the same one.    *)
(***************************************************************************)
C11_BackendFixed ==
    /\ [](\A i \in DOMAIN backends_used :
            /\ CONFIG => backends_used[i] = "PDFKit (Local)"
            /\ backends_used[i] = "WeasyPrint (Cloud)" <=> (~CONFIG /\ HAS_WEASYPRINT)
            /\ backends_used[i] = "none" <=> (~CONFIG /\ ~HAS_WEASYPRINT)
            /\ \A j \in DOMAIN backends_used : backends_used[j] = backends_used[i])
    /\ []((pc = "rendered" /\ render_result.pdf_bytes # "None") =>
            render_result.engine_or_error = backends_used[Len(backends_used)])
    /\ [][CONFIG' = CONFIG /\ HAS_WEASYPRINT' = HAS_WEASYPRINT]_vars

C11_Witness ==
    /\ pc = "rendered"
    /\ Len(backends_used) = 2
    /\ CONFIG /\ HAS_WEASYPRINT
    /\ render_result.pdf_bytes = "None"
    /\ backends_used = <<"PDFKit (Local)", "PDFKit (Local)">>

(***************************************************************************)
(* C12: when a Generate action has ended, normally or by an exception,     *)
(* the stored spreadsheet is the workbook of that action and a stored PDF  *)
(* is the one a backend produced in that action: no PDF of an earlier      *)
(* action stays next to the new spreadsheet.                               *)
(***************************************************************************)
C12_StoredFilesOfSameAction ==
    pc \in {"shown", "raised"} =>
       /\ Len(excel_rows) = Len(df)
       /\ gen_excel_bytes = SheetOf(excel_rows)
       /\ gen_pdf_bytes # NoBytes =>
            /\ render_result # NoBytes
            /\ render_result.pdf_bytes = gen_pdf_bytes.v

(***************************************************************************)
(* C13: for an empty frame generate_pdf_html does not raise and returns    *)
(* the cover, the story page and a table of contents without sections,     *)
(* and no collection header, no category block and no product card.        *)
(***************************************************************************)
C13_EmptyInput ==
    df = <<>> =>
       /\ pc # "raised"
       /\ pc = "done" =>
            html_parts = << [kind |-> "css"], [kind |-> "cover"], [kind |-> "story"],
                            [kind |-> "toc", sections |-> <<>>], [kind |-> "wrapper"],
                            Closing >>

C13_Witness == df = <<>> /\ pc = "done" /\ Len(html_parts) = 6

(***************************************************************************)
(* C14: a record whose image is absent (empty string, None, a missing      *)
(* cell) or a URL that resolves to nothing does not abort                  *)
(* generate_pdf_html: its card carries the IMAGE NOT FOUND placeholder     *)
(* and the cards of all following records are emitted.                     *)
(***************************************************************************)
AbsentImage(cell) == cell.t # "str" \/ cell.len = 0

C14_AbsentImagePlaceholder ==
    /\ pc # "raised"
    /\ \A k \in 1..Len(Cards) :
         AbsentImage(df[k].ImageB64) => Cards[k].image.mime = "none"
    /\ pc = "done" => Len(Cards) = Len(df)

(***************************************************************************)
(* C15: once the grid builder has resolved a record whose image was a      *)
(* URL, the record of the input frame holds the payload: no record the     *)
(* loop has passed still holds a URL, so a second render resolves nothing. *)
(***************************************************************************)
C15_PayloadStoredOnRecord ==
    \A k \in 1..row_i :
       df[k].ImageB64.t = "str" => ~df[k].ImageB64.http

(***************************************************************************)
(* C16: for a case-size entry whose carton volume is text that is no       *)
(* number, such as "abc", generate_excel_file completes, every data row    *)
(* of that category has carton volume 0.0, and the rows of the other       *)
(* categories keep the volume of their own entry.                          *)
(***************************************************************************)
EntryOf(category) ==
    IF category \in DOMAIN case_selection_map
    THEN case_selection_map[category] ELSE EmptyDict

C16_NonNumericVolumeIsZero ==
    /\ pc # "raised"
    /\ \A k \in 1..Len(excel_rows) :
         /\ EntryOf(df[k].Category) \in NonNumericEntries =>
               excel_rows[k].CartonCBM = Finite(0)
         /\ EntryOf(df[k].Category) = FullEntry => excel_rows[k].CartonCBM = Finite(50)
         /\ EntryOf(df[k].Category) = BareEntry => excel_rows[k].CartonCBM = Finite(1250)
    /\ pc \in {"html", "grid", "done"} =>
         /\ Len(gen_excel_bytes.data) = Len(df)
         /\ \A k \in 1..Len(df) : gen_excel_bytes.data[k].D = excel_rows[k].CartonCBM

C16_Witness ==
    /\ pc = "done"
    /\ Len(df) = 3
    /\ EntryOf(S(sX)) = AbcEntry /\ EntryOf(S(sY)) = FullEntry
    /\ df[1].Category = S(sX) /\ df[2].Category = S(sY) /\ df[3].Category = S(sX)
    /\ gen_excel_bytes.data[1].D = Finite(0)
    /\ gen_excel_bytes.data[2].D = Finite(50)
    /\ gen_excel_bytes.data[3].D = Finite(0)

(***************************************************************************)
(* C17: for every record, the sheet row that holds its Ref No, category    *)
(* and name holds in Total CBM a formula, the product of the carton-volume *)
(* cell and the order-quantity cell of that same row, and in the order     *)
(* quantity the literal 0; no other row of the sheet holds such cells.     *)
(***************************************************************************)
RowsOfRecord(sheet, k) ==
    {r \in DOMAIN sheet.cells :
        /\ sheet.cells[r].A = df[k].idx + 1
        /\ sheet.cells[r].B = df[k].Category
        /\ sheet.cells[r].C = excel_rows[k].Name}

C17_TotalIsFormulaOfOwnRow ==
    pc \in {"html", "grid", "done"} =>
       /\ \A k \in 1..Len(df) :
            /\ Cardinality(RowsOfRecord(worksheet, k)) = 1
            /\ \A r \in RowsOfRecord(worksheet, k) :
                 /\ worksheet.cells[r].F.formula = "D*E"
                 /\ worksheet.cells[r].F.d_row = r
                 /\ worksheet.cells[r].F.e_row = r
                 /\ worksheet.cells[r].E = 0
                 /\ worksheet.cells[r].D = excel_rows[k].CartonCBM
       /\ Cardinality(DOMAIN worksheet.cells) = Len(df)

C17_Witness ==
    /\ pc = "done"
    /\ Len(df) = 3
    /\ DOMAIN worksheet.cells = {9, 10, 11}
    /\ worksheet.cells[11].F = [formula |-> "D*E", d_row |-> 11, e_row |-> 11, value |-> 0]
    /\ worksheet.cells[11].A = 3

(***************************************************************************)
(* C18: the table of contents has exactly one section per distinct         *)
(* collection, in order of first appearance, and in it exactly one         *)
(* link-card per distinct category of that collection, in order of first   *)
(* appearance, also when the records of a collection or category are not   *)
(* contiguous; only the first section has no page break before it.         *)
(***************************************************************************)
TocSections == html_parts[4].sections
FirstRow(rows) == CHOOSE k \in rows : \A j \in rows : k <= j
RowsOfCollection(c) == {k \in DOMAIN df : df[k].Catalogue = c}
RowsOfCategory(c, g) == {k \in RowsOfCollection(c) : df[k].Category = g}

C19_NoDanglingTocLink ==
    pc = "done" =>
       \A i \in DOMAIN TocSections :
          \A a \in DOMAIN TocSections[i].cards :
             \E p \in DOMAIN html_parts :
                /\ html_parts[p].kind = "category"
                /\ html_parts[p].id = TocSections[i].cards[a].href

C21_FallbackAttempted ==
    (pc = "rendered" /\ CONFIG /\ HAS_WEASYPRINT /\ render_result.pdf_bytes = "None")
       => backends_used[Len(backends_used)] = "WeasyPrint (Cloud)"

(***************************************************************************)
(* C22: for every category with a case-size entry, also one with several   *)
(* keys that contain 'cbm', the carton volume in the category's            *)
(* spreadsheet rows is the number of the CBM value shown in the            *)
(* category's packing table (0.0 when that text is no number).             *)
(***************************************************************************)
TableOf(k) == Seg(k)[CHOOSE p \in DOMAIN Seg(k) : Seg(k)[p].kind = "table"]
VolumeOfText(text) ==
    IF RoundFloat3(S(text)).ok THEN RoundFloat3(S(text)).val ELSE Finite(0)

C22_SheetVolumeIsTableVolume ==
    pc = "done" =>
       \A k \in 1..Len(Cards) :
          SegHas(k, "table") =>
             \A j \in 1..Len(df) :
                df[j].Category = df[k].Category =>
                   excel_rows[j].CartonCBM = VolumeOfText(TableOf(k).cbm)

(***************************************************************************)
(* C23: confirm_action returns True, and the destructive action runs,      *)
(* only in a run that starts with the key's flag set (by an earlier click  *)
(* on the action button) and clears it; Cancel clears it too; so the       *)
(* action runs at most once per click on the action button and never       *)
(* while the confirmation of that click is still pending.                  *)
(***************************************************************************)
C23_ConfirmTwoSteps ==
    /\ [](\A key \in ConfirmKeys :
            executions[key] + (IF confirm_flags[key] = "on" THEN 1 ELSE 0)
               <= action_clicks[key])
    /\ [][\A key \in ConfirmKeys :
            executions'[key] # executions[key] =>
               /\ executions'[key] = executions[key] + 1
               /\ confirm_flags[key] = "on"
               /\ confirm_flags'[key] = "off"
               /\ confirm_returned']_vars
    /\ [][confirm_returned' =>
            \E key \in ConfirmKeys :
               /\ confirm_flags[key] = "on"
               /\ confirm_flags'[key] = "off"
               /\ executions'[key] = executions[key] + 1]_confirmVars
    /\ [][\A key \in ConfirmKeys :
            (confirm_flags[key] = "off" /\ confirm_flags'[key] = "on") =>
               /\ action_clicks'[key] = action_clicks[key] + 1
               /\ ~confirm_returned'
               /\ executions' = executions]_vars

C23_Witness ==
    /\ executions["clear_cart"] = 1
    /\ action_clicks["clear_cart"] = 2
    /\ confirm_flags["clear_cart"] = "on"
    /\ cart # <<>>

(***************************************************************************)
(* C24: within one category block records with an empty subcategory leave  *)
(* the subcategory tracker alone: a record with label L, then one or more  *)
(* records with an empty subcategory, then a record with label L again     *)
(* emits the header of L at the first record only.                         *)
(***************************************************************************)
LabelOf(k) == Strip(PyStr(df[k].Subcategory))

C24_EmptyKeepsTracker ==
    \A a \in 1..Len(Cards) : \A b \in (a + 2)..Len(Cards) :
       (/\ ~IsEmptySubcategory(df[a].Subcategory)
        /\ ~IsEmptySubcategory(df[b].Subcategory)
        /\ LabelOf(a) = LabelOf(b)
        /\ \A j \in (a + 1)..(b - 1) : IsEmptySubcategory(df[j].Subcategory)
        /\ \A j \in (a + 1)..b : ~CategoryBoundary(j))
       => ~SegHas(b, "subcat")

(***************************************************************************)
(* C25: every category boundary and every collection boundary resets the   *)
(* subcategory tracker: the first record with a non-empty subcategory in   *)
(* a category block emits its subcategory header, also when the label is   *)
(* the last one printed in the block before.                               *)
(***************************************************************************)
C25_BoundaryResetsSubcategory ==
    \A k \in 1..Len(Cards) : \A b \in 1..k :
       (/\ CategoryBoundary(b)
        /\ ~IsEmptySubcategory(df[k].Subcategory)
        /\ \A j \in b..(k - 1) : IsEmptySubcategory(df[j].Subcategory)
        /\ \A j \in (b + 1)..k : ~CategoryBoundary(j))
       => \E p \in DOMAIN Seg(k) : Seg(k)[p] = SubcatHeader(LabelOf(k))

C25_Witness ==
    /\ pc = "done"
    /\ Len(df) = 3
    /\ df[1].Subcategory = S(sPremium)
    /\ df[2].Subcategory = S(sEmpty)
    /\ df[3].Subcategory = S(sPremium)
    /\ df[1].Catalogue = df[3].Catalogue
    /\ df[1].Category = S(sX) /\ df[2].Category = S(sY) /\ df[3].Category = S(sY)
    /\ SegHas(1, "subcat") /\ ~SegHas(2, "subcat") /\ SegHas(3, "subcat")

(***************************************************************************)
(* C26: whatever the number n of records, the rows of the range summed in  *)
(* C2 are exactly the sheet rows of the n data rows, in column F.          *)
(***************************************************************************)
DataSheetRows == {worksheet.data[k].sheet_row : k \in DOMAIN worksheet.data}

C26_TotalRangeIsDataRows ==
    worksheet # NoBytes =>
       /\ worksheet.c2.col = "F"
       /\ worksheet.c2.first .. worksheet.c2.last = DataSheetRows

(***************************************************************************)
(* C27: the number printed on the card of a record is the Ref No of the    *)
(* record's spreadsheet row, whatever the index labels of the frame.       *)
(***************************************************************************)
C27_CardNumberIsRefNo ==
    pc \in {"grid", "raised", "done", "rendered", "shown"} =>
       \A k \in 1..Len(Cards) :
          /\ k <= Len(excel_rows)
          /\ Cards[k].name = df[k].ItemName
          /\ excel_rows[k].Category = df[k].Category
          /\ Cards[k].no = excel_rows[k].RefNo

C27_Witness ==
    /\ pc = "rendered"
    /\ Len(df) >= 2
    /\ Len(Cards) = Len(df)
    /\ \E k \in 1..Len(Cards) : Cards[k].no # k
    /\ \A k \in 1..Len(Cards) : Cards[k].no = excel_rows[k].RefNo

(***************************************************************************)
(* C28: whenever a product card has just been appended, a collection       *)
(* header has been emitted, a category block is open and the trackers are  *)
(* the record's collection and category, also for a null category.         *)
(***************************************************************************)
C28_CardInsideOpenCategory ==
    (pc = "grid" /\ row_i >= 1) =>
       /\ html_parts[Len(html_parts)].kind = "card"
       /\ \E p \in DOMAIN html_parts : html_parts[p].kind = "catalogue"
       /\ category_open
       /\ current_catalogue = df[row_i].Catalogue
       /\ current_category = df[row_i].Category

(***************************************************************************)
(* C29: no two category headings of the product grid of one document       *)
(* carry the same anchor id.                                               *)
(***************************************************************************)
CategoryHeadingPositions ==
    {p \in DOMAIN html_parts : html_parts[p].kind = "category"}

C29_AnchorsDistinct ==
    \A p \in CategoryHeadingPositions : \A q \in CategoryHeadingPositions :
       html_parts[p].id = html_parts[q].id => p = q

(***************************************************************************)
(* C30: the carton volume of every spreadsheet data row is a finite        *)
(* number: a volume that is no usable number becomes 0.0 and a later       *)
(* matching key never replaces a parsed volume by a non-finite one.        *)
(***************************************************************************)
C30_VolumeFinite ==
    \A k \in DOMAIN excel_rows : excel_rows[k].CartonCBM.k = "fin"

====
